---- MODULE Spec2Model ----
(***************************************************************************)
(* Account synchronisation coordinator of the `account` redux slice:       *)
(* the slice state (failedAccounts, accountsSyncing), its three reducers,  *)
(* the response classifier handleSyncResponse and the syncAccounts thunk,  *)
(* which suspends at each `await send(...)`.                               *)
(*                                                                         *)
(* Four specifications share the definitions of the code:                  *)
(*   Spec          concurrent invocations of syncAccounts                  *)
(*   SpecPlan      the worklist, over every snapshot of MaxAccounts        *)
(*   SpecRun       one invocation, over responses of every shape           *)
(*   SpecClassify  handleSyncResponse on successive responses              *)
(***************************************************************************)
EXTENDS Integers, Sequences, FiniteSets, TLC

VARIABLES
    accounts,         \* getState().queries.accounts: the account snapshot
    accountsSyncing,  \* state.accountsSyncing
    failedAccounts,   \* state.failedAccounts: id -> [type, code]
    thunk,            \* per invocation of syncAccounts: its position and locals
    trace,            \* per invocation: its send(...) and dispatch(...) calls, in order
    handled,          \* per invocation: the (accountId, res) pairs given to handleSyncResponse
    ops               \* the invocations of unlinkAccount, linkAccount,
                      \* linkAccountSimpleFin and moveAccount: position and calls

vars == <<accounts, accountsSyncing, failedAccounts, thunk, trace, handled, ops>>

-----------------------------------------------------------------------------
(* Bounds of the model *)

MaxRuns == 2
MaxAccounts == 3
MaxErrors == 2
MaxHandled == 2
MaxOps == 1

Runs == 1..MaxRuns

\* `id` undefined in the payload ({ id?: ... })
NoId == 0

-----------------------------------------------------------------------------
(* Generic helpers *)

Range(s) == {s[i] : i \in 1..Len(s)}

RECURSIVE Concat(_)
Concat(ss) == IF ss = <<>> THEN <<>> ELSE Head(ss) \o Concat(Tail(ss))

\* Array.prototype.map
RECURSIVE MapIds(_)
MapIds(s) == IF s = <<>> THEN <<>> ELSE <<Head(s).id>> \o MapIds(Tail(s))

\* Faulty variant of Slice: the slice starts one element early.
SliceOneEarly(s, from) == SubSeq(s, from, Len(s))

\* Array.prototype.slice(from) with a 0-based index
Slice(s, from) == SubSeq(s, from + 1, Len(s))

-----------------------------------------------------------------------------
(* Reducers of accountsSlice *)

setAccountsSyncing(state, ids) == ids

\* Faulty variant of markAccountFailed: the entries of the other accounts are lost.
markAccountFailedAlone(failed, id, errorType, errorCode) ==
    [k \in {id} |-> [type |-> errorType, code |-> errorCode]]

markAccountFailed(failed, id, errorType, errorCode) ==
    [k \in DOMAIN failed \cup {id} |->
        IF k = id THEN [type |-> errorType, code |-> errorCode] ELSE failed[k]]

\* Faulty variant of markAccountSuccess: the entry is not deleted.
markAccountSuccessKeeping(failed, id) == failed

markAccountSuccess(failed, id) ==
    [k \in DOMAIN failed \ {id} |-> failed[k]]

\* The store's answer to one dispatched action: only the three actions of
\* this slice change the slice state.
Reduce(store, action) ==
    CASE action.type = "setAccountsSyncing" ->
            [store EXCEPT !.accountsSyncing = setAccountsSyncing(@, action.ids)]
      [] action.type = "markAccountFailed" ->
            [store EXCEPT !.failedAccounts =
                markAccountFailed(@, action.id, action.errorType, action.errorCode)]
      [] action.type = "markAccountSuccess" ->
            [store EXCEPT !.failedAccounts = markAccountSuccess(@, action.id)]
      [] OTHER -> store

RECURSIVE ReduceAll(_, _)
ReduceAll(store, actions) ==
    IF actions = <<>> THEN store
    ELSE ReduceAll(Reduce(store, Head(actions)), Tail(actions))

Store == [accountsSyncing |-> accountsSyncing, failedAccounts |-> failedAccounts]

-----------------------------------------------------------------------------
(* handleSyncResponse *)

\* 'type' in error && error.type === 'SyncError'
IsSyncError(error) == error.type = "SyncError"

\* Faulty variant of HealthDispatch: the test for a SyncError left out.
HealthDispatchAnyError(accountId, errors) ==
    IF errors # <<>>
    THEN << [type |-> "markAccountFailed", id |-> accountId,
             errorType |-> errors[1].category, errorCode |-> errors[1].code] >>
    ELSE << [type |-> "markAccountSuccess", id |-> accountId] >>

\* Faulty variant of HealthDispatch: an error that is no SyncError clears
\* the entry.
HealthDispatchClearsOnGeneric(accountId, errors) ==
    IF errors # <<>> /\ IsSyncError(errors[1])
    THEN << [type |-> "markAccountFailed", id |-> accountId,
             errorType |-> errors[1].category, errorCode |-> errors[1].code] >>
    ELSE << [type |-> "markAccountSuccess", id |-> accountId] >>

\* const [error] = errors; if (error) {...} else {...}
HealthDispatch(accountId, errors) ==
    IF errors # <<>>
    THEN IF IsSyncError(errors[1])
         THEN << [type |-> "markAccountFailed", id |-> accountId,
                  errorType |-> errors[1].category, errorCode |-> errors[1].code] >>
         ELSE <<>>
    ELSE << [type |-> "markAccountSuccess", id |-> accountId] >>

\* one addNotification per element of errors.forEach
\* ('internal' in error ? error.internal : undefined)
Notification(error) ==
    IF IsSyncError(error)
    THEN [type |-> "addNotification", severity |-> "error",
          message |-> error.message, internal |-> "undefined"]
    ELSE [type |-> "addNotification", severity |-> "error",
          message |-> error.message, internal |-> error.internal]

\* Faulty variant of NotifyDispatch: only the first error is notified.
NotifyFirstOnly(errors) ==
    IF errors = <<>> THEN <<>> ELSE <<Notification(Head(errors))>>

\* errors.forEach(error => dispatch(addNotification(...)))
RECURSIVE NotifyDispatch(_)
NotifyDispatch(errors) ==
    IF errors = <<>> THEN <<>>
    ELSE <<Notification(Head(errors))>> \o NotifyDispatch(Tail(errors))

\* Faulty variant of Push: the array replaced instead of extended.
PushReplacing(arr, items) == items

\* resNewTransactions.push(...newTransactions)
Push(arr, items) == arr \o items

\* Faulty variant of SuccessOf: matched transactions not counted.
SuccessOfNewOnly(res) == Len(res.newTransactions) > 0

\* return newTransactions.length > 0 || matchedTransactions.length > 0;
SuccessOf(res) == Len(res.newTransactions) > 0 \/ Len(res.matchedTransactions) > 0

\* The whole function: what it dispatches, in order, the three arrays after
\* the pushes, and its return value.
handleSyncResponse(accountId, res, agg) ==
    [dispatched |-> HealthDispatch(accountId, res.errors)
                    \o NotifyDispatch(res.errors)
                    \o << [type |-> "getAccounts"] >>,
     newTransactions |-> Push(agg.newTransactions, res.newTransactions),
     matchedTransactions |-> Push(agg.matchedTransactions, res.matchedTransactions),
     updatedAccounts |-> Push(agg.updatedAccounts, res.updatedAccounts),
     success |-> SuccessOf(res)]

-----------------------------------------------------------------------------
(* The worklist of syncAccounts *)

\* Faulty variant of BatchSync: the batch path taken whether or not an id is given.
BatchSyncAlways(id) == TRUE

\* const batchSync = !id;
BatchSync(id) == id = NoId

\* ({ bank, closed, tombstone }) => !!bank && !closed && !tombstone
SyncEligible(a) == a.bank /\ a.closed = 0 /\ a.tombstone = 0

\* Faulty variant of CompareAccounts: the offbudget key dropped.
CompareBySortOrderOnly(a, b) == a.sort_order - b.sort_order

\* the comparator given to .sort
CompareAccounts(a, b) ==
    IF a.offbudget = b.offbudget
    THEN a.sort_order - b.sort_order
    ELSE a.offbudget - b.offbudget

\* Array.prototype.sort is stable: an element goes before the first element
\* that compares greater than it, hence after every element comparing equal.
RECURSIVE InsertSorted(_, _)
InsertSorted(x, sorted) ==
    IF sorted = <<>> THEN <<x>>
    ELSE IF CompareAccounts(Head(sorted), x) > 0
         THEN <<x>> \o sorted
         ELSE <<Head(sorted)>> \o InsertSorted(x, Tail(sorted))

RECURSIVE SortAccounts(_)
SortAccounts(s) ==
    IF s = <<>> THEN <<>>
    ELSE InsertSorted(s[Len(s)], SortAccounts(SubSeq(s, 1, Len(s) - 1)))

\* let accountIdsToSync = !batchSync ? [id] : queriesState.accounts.filter().sort().map()
AccountIdsToSync(id, snapshot) ==
    IF ~BatchSync(id)
    THEN <<id>>
    ELSE MapIds(SortAccounts(SelectSeq(snapshot, SyncEligible)))

\* accountsData.filter(a => a.account_sync_source === 'simpleFin')
IsSimpleFin(a) == a.account_sync_source = "simpleFin"
SimpleFinAccounts(accountsData) == SelectSeq(accountsData, IsSimpleFin)

\* Faulty variant of WithoutSimpleFin: the batch-synced ids are not removed.
WithoutSimpleFinKeepingAll(ids, simpleFin) == ids

\* Faulty variant of WithoutSimpleFin: the first id that is kept is lost.
WithoutSimpleFinDroppingHead(ids, simpleFin) ==
    LET sf == Range(MapIds(simpleFin))
        Keep(i) == i \notin sf
        kept == SelectSeq(ids, Keep)
    IN IF kept = <<>> THEN <<>> ELSE Tail(kept)

\* accountIdsToSync.filter(id => !simpleFinAccounts.find(sfa => sfa.id === id))
WithoutSimpleFin(ids, simpleFin) ==
    LET sf == Range(MapIds(simpleFin))
        Keep(i) == i \notin sf
    IN SelectSeq(ids, Keep)

-----------------------------------------------------------------------------
(* Trace entries *)

Dispatch(action) == [ev |-> "dispatch", action |-> action]
Send(name, ids) == [ev |-> "send", name |-> name, ids |-> ids]

RECURSIVE Dispatches(_)
Dispatches(actions) ==
    IF actions = <<>> THEN <<>>
    ELSE <<Dispatch(Head(actions))>> \o Dispatches(Tail(actions))

\* the actions dispatched in a stretch of trace, in order
RECURSIVE ActionsOf(_)
ActionsOf(entries) ==
    IF entries = <<>> THEN <<>>
    ELSE (IF Head(entries).ev = "dispatch" THEN <<Head(entries).action>> ELSE <<>>)
         \o ActionsOf(Tail(entries))

-----------------------------------------------------------------------------
(* syncAccounts *)

IdleThunk ==
    [pc |-> "idle", id |-> NoId, accountIdsToSync |-> <<>>, simpleFinAccounts |-> <<>>,
     idx |-> 0, isSyncSuccess |-> FALSE, newTransactions |-> <<>>,
     matchedTransactions |-> <<>>, updatedAccounts |-> <<>>, result |-> FALSE]

Awaiting == {"accounts-get", "simplefin-batch-sync", "accounts-bank-sync"}

\* Faulty variant of AlreadySyncing: the entry check off by one.
AlreadySyncingOffByOne(syncing) == Len(syncing) > 1

\* if (accountsState.accountsSyncing.length > 0) return false;
AlreadySyncing(syncing) == Len(syncing) > 0

\* Faulty variant of FinishRun: the final reset of the progress left out.
FinishRunNoReset(t) ==
    [thunk |-> [t EXCEPT !.pc = "returned", !.result = t.isSyncSuccess],
     out   |-> << Dispatch([type |-> "setNewTransactions",
                            newTransactions |-> t.newTransactions,
                            matchedTransactions |-> t.matchedTransactions,
                            updatedAccounts |-> t.updatedAccounts]) >>]

\* Faulty variant of FinishRun: the aggregate is never published.
FinishRunNoPublish(t) ==
    [thunk |-> [t EXCEPT !.pc = "returned", !.result = t.isSyncSuccess],
     out   |-> << Dispatch([type |-> "setAccountsSyncing", ids |-> <<>>]) >>]

\* The tail of the thunk once the loop is over: publish the aggregate, reset
\* the progress, return isSyncSuccess.
FinishRun(t) ==
    [thunk |-> [t EXCEPT !.pc = "returned", !.result = t.isSyncSuccess],
     out   |-> << Dispatch([type |-> "setNewTransactions",
                            newTransactions |-> t.newTransactions,
                            matchedTransactions |-> t.matchedTransactions,
                            updatedAccounts |-> t.updatedAccounts]),
                  Dispatch([type |-> "setAccountsSyncing", ids |-> <<>>]) >>]

\* The head of the for loop: either the next individual call is sent and the
\* thunk suspends, or the loop is over.
LoopHead(t) ==
    IF t.idx < Len(t.accountIdsToSync)
    THEN [thunk |-> [t EXCEPT !.pc = "accounts-bank-sync"],
          out   |-> << Send("accounts-bank-sync", <<t.accountIdsToSync[t.idx + 1]>>) >>]
    ELSE FinishRun(t)

\* Faulty variant of LoopBody: every iteration publishes the empty list.
LoopBodyClearsProgress(t, res) ==
    LET accountId == t.accountIdsToSync[t.idx + 1]
        h == handleSyncResponse(accountId, res, t)
    IN [thunk |-> [t EXCEPT !.newTransactions = h.newTransactions,
                            !.matchedTransactions = h.matchedTransactions,
                            !.updatedAccounts = h.updatedAccounts,
                            !.isSyncSuccess = t.isSyncSuccess \/ h.success,
                            !.idx = t.idx + 1],
        out   |-> Dispatches(h.dispatched)
                  \o << Dispatch([type |-> "setAccountsSyncing", ids |-> <<>>]) >>]

\* Faulty variant of LoopBody: a response with errors ends the loop.
LoopBodyBreakOnError(t, res) ==
    LET accountId == t.accountIdsToSync[t.idx + 1]
        h == handleSyncResponse(accountId, res, t)
    IN [thunk |-> [t EXCEPT !.newTransactions = h.newTransactions,
                            !.matchedTransactions = h.matchedTransactions,
                            !.updatedAccounts = h.updatedAccounts,
                            !.isSyncSuccess = t.isSyncSuccess \/ h.success,
                            !.idx = IF res.errors # <<>>
                                    THEN Len(t.accountIdsToSync) ELSE t.idx + 1],
        out   |-> Dispatches(h.dispatched)
                  \o << Dispatch([type |-> "setAccountsSyncing",
                                  ids |-> Slice(t.accountIdsToSync, t.idx + 1)]) >>]

\* One loop body after its await: classify, or the flag, publish the ids
\* that are yet to be synced, idx++.
LoopBody(t, res) ==
    LET accountId == t.accountIdsToSync[t.idx + 1]
        h == handleSyncResponse(accountId, res, t)
    IN [thunk |-> [t EXCEPT !.newTransactions = h.newTransactions,
                            !.matchedTransactions = h.matchedTransactions,
                            !.updatedAccounts = h.updatedAccounts,
                            !.isSyncSuccess = t.isSyncSuccess \/ h.success,
                            !.idx = t.idx + 1],
        out   |-> Dispatches(h.dispatched)
                  \o << Dispatch([type |-> "setAccountsSyncing",
                                  ids |-> Slice(t.accountIdsToSync, t.idx + 1)]) >>]

\* for (const account of res) { handleSyncResponse(...); if (success) ... }
RECURSIVE BatchLoop(_, _)
BatchLoop(t, results) ==
    IF results = <<>> THEN [thunk |-> t, out |-> <<>>]
    ELSE LET h == handleSyncResponse(Head(results).accountId, Head(results).res, t)
             t1 == [t EXCEPT !.newTransactions = h.newTransactions,
                             !.matchedTransactions = h.matchedTransactions,
                             !.updatedAccounts = h.updatedAccounts,
                             !.isSyncSuccess = t.isSyncSuccess \/ h.success]
             rest == BatchLoop(t1, Tail(results))
         IN [thunk |-> rest.thunk, out |-> Dispatches(h.dispatched) \o rest.out]

\* A stretch of synchronous code of invocation r ends: its entries join the
\* trace and the store reduces its dispatched actions in order.
Commit(r, t, out, pairs) ==
    \E entries \in {out} :
    \E store \in {ReduceAll(Store, ActionsOf(entries))} :
       /\ thunk' = [thunk EXCEPT ![r] = t]
       /\ trace' = [trace EXCEPT ![r] = @ \o entries]
       /\ handled' = [handled EXCEPT ![r] = @ \o pairs]
       /\ accountsSyncing' = store.accountsSyncing
       /\ failedAccounts' = store.failedAccounts
       /\ UNCHANGED <<accounts, ops>>

\* dispatch(syncAccounts({ id })): from the entry check to the first await
Invoke(r, id) ==
    /\ thunk[r].pc = "idle"
    /\ \A q \in Runs : q < r => thunk[q].pc # "idle"
    /\ IF AlreadySyncing(accountsSyncing)
       THEN Commit(r, [thunk[r] EXCEPT !.pc = "returned", !.id = id, !.result = FALSE],
                   <<>>, <<>>)
       ELSE LET ids == AccountIdsToSync(id, accounts)
            IN Commit(r, [thunk[r] EXCEPT !.pc = "accounts-get", !.id = id,
                                          !.accountIdsToSync = ids],
                      << Dispatch([type |-> "setAccountsSyncing", ids |-> ids]),
                         Send("accounts-get", <<>>) >>,
                      <<>>)

\* await send('accounts-get') resolves with accountsData
AccountsGetResolves(r, accountsData) ==
    /\ thunk[r].pc = "accounts-get"
    /\ LET t == [thunk[r] EXCEPT !.simpleFinAccounts = SimpleFinAccounts(accountsData)]
       IN IF BatchSync(t.id) /\ Len(t.simpleFinAccounts) > 0
          THEN Commit(r, [t EXCEPT !.pc = "simplefin-batch-sync"],
                      << Send("simplefin-batch-sync", MapIds(t.simpleFinAccounts)) >>,
                      <<>>)
          ELSE \E n \in {LoopHead(t)} : Commit(r, n.thunk, n.out, <<>>)

\* await send('simplefin-batch-sync') resolves with res
BatchSyncResolves(r, results) ==
    /\ thunk[r].pc = "simplefin-batch-sync"
    /\ \E b \in {BatchLoop(thunk[r], results)} :
       \E n \in {LoopHead([b.thunk EXCEPT !.accountIdsToSync =
                              WithoutSimpleFin(@, b.thunk.simpleFinAccounts)])} :
          Commit(r, n.thunk, b.out \o n.out, results)

\* await send('accounts-bank-sync') resolves with res
BankSyncResolves(r, res) ==
    /\ thunk[r].pc = "accounts-bank-sync"
    /\ \E b \in {LoopBody(thunk[r], res)} :
       \E n \in {LoopHead(b.thunk)} :
          Commit(r, n.thunk, b.out \o n.out,
                 << [accountId |-> thunk[r].accountIdsToSync[thunk[r].idx + 1],
                     res |-> res] >>)

\* an awaited send(...) rejects: the thunk ends there, with nothing after the
\* await executed
SendRejects(r) ==
    /\ thunk[r].pc \in Awaiting
    /\ Commit(r, [thunk[r] EXCEPT !.pc = "rejected"], <<>>, <<>>)

-----------------------------------------------------------------------------
(* Inputs *)

Account(id, bank, closed, tombstone, offbudget, sort_order, source) ==
    [id |-> id, bank |-> bank, closed |-> closed, tombstone |-> tombstone,
     offbudget |-> offbudget, sort_order |-> sort_order,
     account_sync_source |-> source]

\* The two kinds of element of SyncResponseWithErrors.errors: one with
\* type 'SyncError', and anything else (no such type; `internal` optional).
SyncError(category, code, message) ==
    [type |-> "SyncError", category |-> category, code |-> code,
     message |-> message, internal |-> "undefined"]
GenericIssue(message, internal) ==
    [type |-> "none", category |-> "undefined", code |-> "undefined",
     message |-> message, internal |-> internal]

Response(errors, new, matched, updated) ==
    [errors |-> errors, newTransactions |-> new, matchedTransactions |-> matched,
     updatedAccounts |-> updated]

\* simplefin-batch-sync answers with one { accountId, res } per requested id
BatchResults(simpleFin, responses) ==
    LET ids == MapIds(simpleFin)
    IN { [i \in 1..Len(ids) |-> [accountId |-> ids[i], res |-> f[i]]] :
            f \in [1..Len(ids) -> responses] }

AccountIds == 1..MaxAccounts

\* the ids a caller may pass: none, or the id of an account
Targets == {NoId} \cup AccountIds

InitStore ==
    /\ accountsSyncing = <<>>
    /\ failedAccounts = <<>>

InitThunks ==
    /\ thunk = [r \in Runs |-> IdleThunk]
    /\ trace = [r \in Runs |-> <<>>]
    /\ handled = [r \in Runs |-> <<>>]
    /\ ops = <<>>

-----------------------------------------------------------------------------
(* Spec: concurrent invocations of syncAccounts *)

\* Snapshots with: no sync-eligible account; on-budget, off-budget and
\* simpleFin accounts mixed; only simpleFin accounts; a closed simpleFin one.
BasicSnapshots ==
    { << Account(1, FALSE, 0, 0, 0, 1, "none") >>,
      << Account(1, TRUE, 0, 0, 1, 1, "goCardless"),
         Account(2, TRUE, 0, 0, 0, 2, "simpleFin"),
         Account(3, TRUE, 0, 0, 0, 1, "goCardless") >>,
      << Account(1, TRUE, 0, 0, 0, 1, "simpleFin"),
         Account(2, TRUE, 0, 0, 0, 2, "simpleFin") >>,
      << Account(1, TRUE, 0, 0, 0, 1, "goCardless"),
         Account(2, TRUE, 1, 0, 0, 2, "simpleFin") >> }

BasicResponses ==
    { Response(<<>>, <<"t1">>, <<>>, <<>>),
      Response(<< SyncError("X", "Y", "m1") >>, <<>>, <<>>, <<>>) }

\* accounts-get is answered with the list the snapshot was loaded from, so
\* AccountsGetResolves is given `accounts` as accountsData in every
\* specification below.
Init ==
    /\ accounts \in BasicSnapshots
    /\ InitStore
    /\ InitThunks

Next ==
    \E r \in Runs :
        \/ \E id \in Targets : Invoke(r, id)
        \/ AccountsGetResolves(r, accounts)
        \/ \E results \in BatchResults(thunk[r].simpleFinAccounts, BasicResponses) :
                BatchSyncResolves(r, results)
        \/ \E res \in BasicResponses : BankSyncResolves(r, res)
        \/ SendRejects(r)

Spec == Init /\ [][Next]_vars

-----------------------------------------------------------------------------
(* Properties of Spec *)

\* an invocation that passed the entry check: its first act is a dispatch
Accepted(r) == trace[r] # <<>>
Active(r) == thunk[r].pc \in Awaiting
Returned(r) == thunk[r].pc = "returned" /\ Accepted(r)
Rejected(r) == thunk[r].pc = "returned" /\ ~Accepted(r)

SendsOf(r, name) == SelectSeq(trace[r], LAMBDA e : e.ev = "send" /\ e.name = name)
DispatchesOf(r, type) ==
    SelectSeq(trace[r], LAMBDA e : e.ev = "dispatch" /\ e.action.type = type)

\* C1: an invocation of syncAccounts that starts while accountsSyncing is
\* non-empty returns false, sends nothing to the provider, dispatches
\* nothing, and leaves accountsSyncing and failedAccounts as they were.
C1_SingleFlightRejection ==
    [][\A r \in Runs :
        (thunk[r].pc = "idle" /\ thunk'[r].pc # "idle" /\ Len(accountsSyncing) > 0)
        => /\ thunk'[r].pc = "returned"
           /\ thunk'[r].result = FALSE
           /\ trace' = trace
           /\ accountsSyncing' = accountsSyncing
           /\ failedAccounts' = failedAccounts]_vars

C1_Witness ==
    \E r, q \in Runs : Rejected(r) /\ thunk[r].result = FALSE /\ Active(q)
                       /\ accountsSyncing # <<>>

\* C2: at most one invocation is between passing its entry check and its
\* final reset of the progress (the claim as stated).
C2_MutualExclusion ==
    Cardinality({r \in Runs : Active(r)}) <= 1

\* C3: in the state a run returns in (having found transactions, found
\* none, or seen every account fail), accountsSyncing is empty.
C3_LockReleasedOnReturn ==
    [][\A r \in Runs :
        (Active(r) /\ thunk'[r].pc = "returned") => accountsSyncing' = <<>>]_vars

C3_Witness ==
    \E r \in Runs :
        /\ Returned(r) /\ accountsSyncing = <<>>
        /\ Len(handled[r]) >= 2
        /\ \A i \in 1..Len(handled[r]) : handled[r][i].res.errors # <<>>

\* C5: a run invoked with a target id publishes exactly [id] as its
\* worklist, never sends simplefin-batch-sync, sends individual calls only
\* for [id], at most one, and exactly one by the time it returns.
C5_BatchExclusion ==
    \A r \in Runs :
        (Accepted(r) /\ thunk[r].id # NoId)
        => /\ trace[r][1] = Dispatch([type |-> "setAccountsSyncing",
                                      ids |-> <<thunk[r].id>>])
           /\ SendsOf(r, "simplefin-batch-sync") = <<>>
           /\ \A i \in 1..Len(trace[r]) :
                (trace[r][i].ev = "send" /\ trace[r][i].name = "accounts-bank-sync")
                => trace[r][i].ids = <<thunk[r].id>>
           /\ Len(SendsOf(r, "accounts-bank-sync")) <= 1
           /\ (Returned(r) => Len(SendsOf(r, "accounts-bank-sync")) = 1)

\* a returned targeted run whose target is itself a simpleFin account
C5_Witness ==
    \E r \in Runs :
        /\ Returned(r) /\ thunk[r].id # NoId
        /\ \E i \in 1..Len(accounts) :
              accounts[i].id = thunk[r].id /\ IsSimpleFin(accounts[i])
        /\ Len(SendsOf(r, "accounts-bank-sync")) = 1

-----------------------------------------------------------------------------
(* SpecPlan: the worklist of a sync-all invocation, over every snapshot of *)
(* MaxAccounts accounts                                                    *)

\* bank present or not, closed, tombstoned: each way of being ineligible
Linkages == { <<TRUE, 0, 0>>, <<FALSE, 0, 0>>, <<TRUE, 1, 0>>, <<TRUE, 0, 1>> }
SortOrders == {1, 2}

PlanSnapshots ==
    { [i \in AccountIds |->
          Account(i, l[i][1], l[i][2], l[i][3], o[i], s[i], "goCardless")] :
        l \in [AccountIds -> Linkages],
        o \in [AccountIds -> {0, 1}],
        s \in [AccountIds -> SortOrders] }

InitPlan ==
    /\ accounts \in PlanSnapshots
    /\ InitStore
    /\ InitThunks

NextPlan == Invoke(1, NoId)

SpecPlan == InitPlan /\ [][NextPlan]_vars

PositionOf(id) == CHOOSE i \in 1..Len(accounts) : accounts[i].id = id
AccountOf(id) == accounts[PositionOf(id)]

\* C4: the worklist a sync-all invocation publishes holds exactly the
\* accounts of the snapshot with a bank link that are neither closed nor
\* tombstoned, each once, on-budget before off-budget, ascending sort_order
\* within a group, and snapshot order between accounts with equal keys.
C4_WorklistOrdering ==
    Accepted(1) =>
        LET w == trace[1][1].action.ids
        IN /\ trace[1][1].action.type = "setAccountsSyncing"
           /\ accountsSyncing = w
           /\ Range(w) = { accounts[i].id : i \in
                            { j \in 1..Len(accounts) :
                                /\ accounts[j].bank = TRUE
                                /\ accounts[j].closed # 1
                                /\ accounts[j].tombstone # 1 } }
           /\ \A i, j \in 1..Len(w) : i < j =>
                LET a == AccountOf(w[i])
                    b == AccountOf(w[j])
                IN /\ w[i] # w[j]
                   /\ \/ a.offbudget < b.offbudget
                      \/ a.offbudget = b.offbudget /\ a.sort_order < b.sort_order
                      \/ /\ a.offbudget = b.offbudget
                         /\ a.sort_order = b.sort_order
                         /\ PositionOf(w[i]) < PositionOf(w[j])

\* A(offbudget=false, sort_order=2), B(true, 1), C(false, 1) gives [C, A, B]
C4_Witness ==
    /\ Len(accounts) >= 3
    /\ \A i \in 1..3 : accounts[i].bank /\ accounts[i].closed = 0
                       /\ accounts[i].tombstone = 0
    /\ accounts[1].offbudget = 0 /\ accounts[1].sort_order = 2
    /\ accounts[2].offbudget = 1 /\ accounts[2].sort_order = 1
    /\ accounts[3].offbudget = 0 /\ accounts[3].sort_order = 1
    /\ Len(accountsSyncing) >= 3
    /\ SubSeq(accountsSyncing, 1, 3) = <<3, 1, 2>>

-----------------------------------------------------------------------------
(* SpecRun: one invocation of syncAccounts over responses of every shape *)

Issues ==
    { SyncError("X", "Y", "m1"),
      GenericIssue("m2", "stack"),
      GenericIssue("m3", "undefined") }

\* the sequences of at most MaxErrors issues
ErrorSeqs == UNION { [1..n -> Issues] : n \in 0..MaxErrors }

NewOptions == { <<>>, <<"t1">>, <<"t2", "t1">> }
MatchedOptions == { <<>>, <<"t3">> }
UpdatedOptions == { <<>>, <<1>> }

RunResponses ==
    { Response(<<>>, n, m, u) :
        n \in NewOptions, m \in MatchedOptions, u \in UpdatedOptions }
    \cup { Response(e, <<>>, <<>>, <<>>) : e \in ErrorSeqs }
    \cup { Response(<< SyncError("X", "Y", "m1") >>, <<"t1">>, <<>>, <<>>),
           Response(<< GenericIssue("m2", "stack") >>, <<>>, <<"t3">>, <<>>) }

RunSnapshots ==
    { << Account(1, TRUE, 0, 0, 0, 2, "goCardless"),
         Account(2, TRUE, 0, 0, 1, 1, "goCardless"),
         Account(3, TRUE, 0, 0, 0, 1, "goCardless") >>,
      << Account(1, TRUE, 0, 0, 0, 2, "goCardless"),
         Account(2, TRUE, 0, 0, 0, 1, "simpleFin"),
         Account(3, TRUE, 0, 0, 1, 1, "goCardless") >> }

InitRun ==
    /\ accounts \in RunSnapshots
    /\ InitStore
    /\ InitThunks

NextRun ==
    \/ \E id \in Targets : Invoke(1, id)
    \/ AccountsGetResolves(1, accounts)
    \/ \E results \in BatchResults(thunk[1].simpleFinAccounts, RunResponses) :
            BatchSyncResolves(1, results)
    \/ \E res \in RunResponses : BankSyncResolves(1, res)
    \/ SendRejects(1)

SpecRun == InitRun /\ [][NextRun]_vars

Flatten(pairs, F(_)) == Concat([i \in 1..Len(pairs) |-> F(pairs[i].res)])

NoDuplicates(s) == \A i, j \in 1..Len(s) : i # j => s[i] # s[j]

\* the payload of the one setNewTransactions of a returned run
PublishedBy(r) == DispatchesOf(r, "setNewTransactions")[1].action

\* C6 as stated: the published aggregate is the union of the responses'
\* ids, an id that occurs in several responses appearing once.
C6_AggregateIsSetUnion ==
    \A r \in Runs : Returned(r) =>
        /\ Range(PublishedBy(r).newTransactions)
             = UNION { Range(handled[r][i].res.newTransactions) :
                          i \in 1..Len(handled[r]) }
        /\ NoDuplicates(PublishedBy(r).newTransactions)

\* C6 amended: each published array is the concatenation, in processing
\* order, of the corresponding arrays of the responses of the run (so it
\* holds the union of their ids, an id occurring once per response it is in).
C6_AggregateIsConcatenation ==
    \A r \in Runs : Returned(r) =>
        /\ Len(DispatchesOf(r, "setNewTransactions")) = 1
        /\ PublishedBy(r).newTransactions
             = Flatten(handled[r], LAMBDA res : res.newTransactions)
        /\ PublishedBy(r).matchedTransactions
             = Flatten(handled[r], LAMBDA res : res.matchedTransactions)
        /\ PublishedBy(r).updatedAccounts
             = Flatten(handled[r], LAMBDA res : res.updatedAccounts)
        /\ Range(PublishedBy(r).newTransactions)
             = UNION { Range(handled[r][i].res.newTransactions) :
                          i \in 1..Len(handled[r]) }

\* responses with newTransactions [t1], [], [t2, t1]
C6_Witness ==
    /\ Returned(1)
    /\ Len(handled[1]) = 3
    /\ handled[1][1].res.newTransactions = <<"t1">>
    /\ handled[1][2].res.newTransactions = <<>>
    /\ handled[1][3].res.newTransactions = <<"t2", "t1">>
    /\ PublishedBy(1).newTransactions = <<"t1", "t2", "t1">>

\* C7: an accepted run returns true iff some response it processed (in
\* the batch loop or the for loop) has a non-empty newTransactions or a
\* non-empty matchedTransactions; errors and updatedAccounts play no part.
C7_SuccessFlag ==
    \A r \in Runs : Returned(r) =>
        (thunk[r].result
            <=> \E i \in 1..Len(handled[r]) :
                    \/ handled[r][i].res.newTransactions # <<>>
                    \/ handled[r][i].res.matchedTransactions # <<>>)

\* true on matched transactions alone, from a response that carries an error
C7_Witness ==
    /\ Returned(1) /\ thunk[1].result = TRUE
    /\ \A i \in 1..Len(handled[1]) : handled[1][i].res.newTransactions = <<>>
    /\ \E i \in 1..Len(handled[1]) :
          /\ handled[1][i].res.matchedTransactions # <<>>
          /\ handled[1][i].res.errors # <<>>
    /\ \E i \in 1..Len(handled[1]) :
          /\ handled[1][i].res.updatedAccounts # <<>>
          /\ handled[1][i].res.matchedTransactions = <<>>

\* C10: the addNotification actions a run has dispatched are, in order,
\* one per issue of each response it has processed: an error notification
\* with the issue's message (and its internal detail when it is no
\* SyncError), whatever the kind or position of the issue; so their number
\* is the total number of issues.
C10_OneNotificationPerIssue ==
    \A r \in Runs :
        LET issues == Flatten(handled[r], LAMBDA res : res.errors)
            notes == DispatchesOf(r, "addNotification")
        IN /\ Len(notes) = Len(issues)
           /\ \A i \in 1..Len(notes) :
                /\ notes[i].action.severity = "error"
                /\ notes[i].action.message = issues[i].message
                /\ notes[i].action.internal =
                      (IF issues[i].type = "SyncError" THEN "undefined"
                       ELSE issues[i].internal)

\* a response with [GenericIssue, SyncError] and one with a SyncError first
C10_Witness ==
    /\ Returned(1)
    /\ \E i \in 1..Len(handled[1]) :
          /\ Len(handled[1][i].res.errors) = 2
          /\ handled[1][i].res.errors[1].type # "SyncError"
          /\ handled[1][i].res.errors[2].type = "SyncError"
    /\ \E i \in 1..Len(handled[1]) :
          /\ Len(handled[1][i].res.errors) = 2
          /\ handled[1][i].res.errors[1].type = "SyncError"
    /\ Len(DispatchesOf(1, "addNotification")) >= 4

-----------------------------------------------------------------------------
(* SpecClassify: handleSyncResponse applied to successive responses, from  *)
(* any prior failedAccounts                                                *)

ClassifyAccounts == {1, 2}

PriorFailures ==
    UNION { [d -> { [type |-> "P", code |-> "Q"] }] : d \in SUBSET ClassifyAccounts }

ClassifyIssues == { SyncError("X", "Y", "m1"), GenericIssue("m2", "stack") }

ClassifyResponses ==
    { Response(e, <<>>, <<>>, <<>>) :
        e \in UNION { [1..n -> ClassifyIssues] : n \in 0..MaxErrors } }
    \cup { Response(<<>>, <<"t1">>, <<>>, <<>>) }

\* one call handleSyncResponse(accountId, res, dispatch, ...) on the arrays
\* of invocation r
Classify(r, accountId, res) ==
    /\ Len(handled[r]) < MaxHandled
    /\ LET h == handleSyncResponse(accountId, res, thunk[r])
       IN Commit(r, [thunk[r] EXCEPT !.newTransactions = h.newTransactions,
                                     !.matchedTransactions = h.matchedTransactions,
                                     !.updatedAccounts = h.updatedAccounts],
                 Dispatches(h.dispatched),
                 << [accountId |-> accountId, res |-> res] >>)

InitClassify ==
    /\ accounts = <<>>
    /\ accountsSyncing = <<>>
    /\ failedAccounts \in PriorFailures
    /\ InitThunks

NextClassify ==
    \E a \in ClassifyAccounts, res \in ClassifyResponses : Classify(1, a, res)

SpecClassify == InitClassify /\ [][NextClassify]_vars

FirstIsSyncError(errors) == errors # <<>> /\ errors[1].type = "SyncError"
FirstIsGeneric(errors) == errors # <<>> /\ errors[1].type # "SyncError"

\* C8: after two consecutive responses for one account, the first with a
\* SyncError {category X, code Y} as first issue and the second without
\* errors, the account has no entry in failedAccounts; after the same two
\* in the reverse order its entry is exactly {type X, code Y}; whatever
\* failedAccounts held before.
C8_FailureSetClear ==
    LET h == handled[1]
        n == Len(h)
    IN (n >= 2 /\ h[n - 1].accountId = h[n].accountId) =>
        LET a == h[n].accountId
            first == h[n - 1].res.errors
            second == h[n].res.errors
        IN /\ (FirstIsSyncError(first) /\ second = <<>>)
                => a \notin DOMAIN failedAccounts
           /\ (first = <<>> /\ FirstIsSyncError(second))
                => /\ a \in DOMAIN failedAccounts
                   /\ failedAccounts[a] = [type |-> second[1].category,
                                           code |-> second[1].code]

\* error then success for account 1, the entry of account 2 still there
C8_Witness ==
    /\ Len(handled[1]) = 2
    /\ handled[1][1].accountId = 1 /\ handled[1][2].accountId = 1
    /\ FirstIsSyncError(handled[1][1].res.errors)
    /\ handled[1][2].res.errors = <<>>
    /\ DOMAIN failedAccounts = {2}

\* C9: a call of handleSyncResponse with a response whose first issue is
\* no SyncError leaves the account's entry in failedAccounts as it was,
\* present or absent, whatever issues follow the first.
C9_FirstIssueAuthority ==
    [][\A a \in ClassifyAccounts :
        (/\ Len(handled'[1]) = Len(handled[1]) + 1
         /\ handled'[1][Len(handled'[1])].accountId = a
         /\ FirstIsGeneric(handled'[1][Len(handled'[1])].res.errors))
        => /\ (a \in DOMAIN failedAccounts') = (a \in DOMAIN failedAccounts)
           /\ a \in DOMAIN failedAccounts => failedAccounts'[a] = failedAccounts[a]]_vars

\* [GenericIssue, SyncError] for an account whose entry {P, Q} is still there
C9_Witness ==
    \E i \in 1..Len(handled[1]) :
        /\ i = Len(handled[1])
        /\ handled[1][i].accountId = 1
        /\ Len(handled[1][i].res.errors) = 2
        /\ FirstIsGeneric(handled[1][i].res.errors)
        /\ handled[1][i].res.errors[2].type = "SyncError"
        /\ 1 \in DOMAIN failedAccounts
        /\ failedAccounts[1] = [type |-> "P", code |-> "Q"]

-----------------------------------------------------------------------------
(* Order of the calls and of the progress publications of one run *)

\* the worklist an accepted invocation published first
Worklist(r) == trace[r][1].action.ids

\* the ids the batch call of the run carried (none when none was sent)
BatchIds(r) ==
    LET sent == SendsOf(r, "simplefin-batch-sync")
    IN IF sent = <<>> THEN <<>> ELSE sent[1].ids

\* the worklist without the ids that went through the batch call
SequentialIds(r) ==
    SelectSeq(Worklist(r), LAMBDA i : i \notin Range(BatchIds(r)))

IsSend(e, name) == e.ev = "send" /\ e.name = name
IsDispatch(e, type) == e.ev = "dispatch" /\ e.action.type = type

\* the calls of handleSyncResponse end with dispatch(getAccounts())
ClassifiedBefore(r, i) ==
    Cardinality({ j \in 1..(i - 1) : IsDispatch(trace[r][j], "getAccounts") })
IndividualUpTo(r, i) ==
    Cardinality({ j \in 1..i : IsSend(trace[r][j], "accounts-bank-sync") })

\* the responses of the run that came from individual calls
SequentialHandled(r) ==
    IF Len(handled[r]) >= Len(BatchIds(r))
    THEN SubSeq(handled[r], Len(BatchIds(r)) + 1, Len(handled[r]))
    ELSE <<>>

\* C11: in a sync-all run the batch call comes before every individual
\* call and each response of the batch is classified before the first
\* individual call is sent; the k-th individual call carries the k-th id
\* of the worklist (batch ids left out) and is sent only once the k-1
\* responses before it are classified, so at most one is in flight.
C11_PhaseAndCallOrder ==
    \A r \in Runs : (Accepted(r) /\ thunk[r].id = NoId) =>
        /\ \A i \in 1..Len(trace[r]) :
              IsSend(trace[r][i], "accounts-bank-sync") =>
                LET k == IndividualUpTo(r, i)
                IN /\ ClassifiedBefore(r, i) = Len(BatchIds(r)) + (k - 1)
                   /\ k <= Len(SequentialIds(r))
                   /\ trace[r][i].ids = << SequentialIds(r)[k] >>
                   /\ \A j \in 1..Len(trace[r]) :
                        IsSend(trace[r][j], "simplefin-batch-sync") => j < i
        /\ Len(handled[r]) > 0 =>
              /\ Len(handled[r]) >= Len(BatchIds(r))
              /\ \A j \in 1..Len(BatchIds(r)) :
                    handled[r][j].accountId = BatchIds(r)[j]
        /\ Len(SendsOf(r, "accounts-bank-sync")) - Len(SequentialHandled(r)) \in {0, 1}

\* a returned sync-all run with a batch call and two individual calls
C11_Witness ==
    /\ Returned(1) /\ thunk[1].id = NoId
    /\ BatchIds(1) = <<2>>
    /\ Len(SendsOf(1, "accounts-bank-sync")) = 2
    /\ SendsOf(1, "accounts-bank-sync")[1].ids = <<1>>
    /\ SendsOf(1, "accounts-bank-sync")[2].ids = <<3>>

\* the ids of the successive setAccountsSyncing of a run
Progress(r) ==
    LET p == DispatchesOf(r, "setAccountsSyncing")
    IN [i \in 1..Len(p) |-> p[i].action.ids]

Without(s, id) == SelectSeq(s, LAMBDA i : i # id)

\* C12 as stated: with or without a batch phase, the publication after
\* each sequential step is the one before it with exactly the id just
\* processed removed.
C12_ShrinksByExactlyOne ==
    \A r \in Runs : Accepted(r) =>
        \A k \in 1..Len(SequentialHandled(r)) :
            Progress(r)[k + 1] = Without(Progress(r)[k], SequentialHandled(r)[k].accountId)

\* C12 amended: the publication after the k-th sequential step is the
\* worklist without the batch ids, from its (k+1)-th id on; it holds no id
\* the publication before it lacks; it is the one before it without the id
\* just processed, except that the first one after a batch phase has lost
\* the batch ids as well.
C12_ShrinksToSuffix ==
    \A r \in Runs : Accepted(r) =>
        \A k \in 1..Len(SequentialHandled(r)) :
            LET done == SequentialHandled(r)[k].accountId
                prev == Progress(r)[k]
                now == Progress(r)[k + 1]
            IN /\ now = SubSeq(SequentialIds(r), k + 1, Len(SequentialIds(r)))
               /\ Range(now) \subseteq Range(prev)
               /\ done \notin Range(now)
               /\ now = IF k = 1
                        THEN SelectSeq(Without(prev, done),
                                       LAMBDA i : i \notin Range(BatchIds(r)))
                        ELSE Without(prev, done)

\* worklist [2, 1, 3], 2 through the batch call: [2, 1, 3], [3], [], []
C12_Witness ==
    /\ Returned(1)
    /\ Progress(1) = << <<2, 1, 3>>, <<3>>, <<>>, <<>> >>
    /\ BatchIds(1) = <<2>>

-----------------------------------------------------------------------------
(* SpecLive: concurrent invocations whose provider calls all return a     *)
(* response; each awaited send of each invocation resolves eventually      *)

LiveResponses ==
    BasicResponses
    \cup { Response(<< GenericIssue("m2", "stack"), SyncError("X", "Y", "m1") >>,
                    <<>>, <<>>, <<>>) }

\* the awaited send of invocation r resolves
Resolves(r) ==
    \/ AccountsGetResolves(r, accounts)
    \/ \E results \in BatchResults(thunk[r].simpleFinAccounts, LiveResponses) :
            BatchSyncResolves(r, results)
    \/ \E res \in LiveResponses : BankSyncResolves(r, res)

\* sync of every account, or of account 1 only
LiveTargets == {NoId, 1}

NextLive ==
    \E r \in Runs :
        \/ \E id \in LiveTargets : Invoke(r, id)
        \/ Resolves(r)

SpecLive ==
    Init /\ [][NextLive]_vars /\ \A r \in Runs : WF_vars(Resolves(r))

\* the last two entries of the trace are the publish and the final reset
EndsWithPublishAndReset(r) ==
    LET n == Len(trace[r])
    IN /\ n >= 2
       /\ IsDispatch(trace[r][n - 1], "setNewTransactions")
       /\ trace[r][n] = Dispatch([type |-> "setAccountsSyncing", ids |-> <<>>])

\* C13: an accepted run whose provider calls all return eventually has
\* dispatched setNewTransactions exactly once, never more than once, and
\* only with every send of the run made and every response of the run given
\* to handleSyncResponse before it; an invocation that starts while
\* accountsSyncing is non-empty dispatches none, then or later.
C13_ExactlyOnePublish ==
    /\ [](\A r \in Runs :
            /\ Len(DispatchesOf(r, "setNewTransactions")) <= 1
            /\ \A i \in 1..Len(trace[r]) :
                  IsDispatch(trace[r][i], "setNewTransactions") =>
                    /\ thunk[r].pc = "returned"
                    /\ \A j \in 1..Len(trace[r]) :
                          (trace[r][j].ev = "send"
                           \/ IsDispatch(trace[r][j], "getAccounts")) => j < i
                    /\ Len(SendsOf(r, "accounts-bank-sync")) = Len(SequentialIds(r))
                    /\ Len(handled[r]) = Len(BatchIds(r)) + Len(SequentialIds(r)))
    /\ [][\A r \in Runs :
            /\ (thunk[r].pc = "idle" /\ thunk'[r].pc # "idle" /\ accountsSyncing # <<>>)
                  => DispatchesOf(r, "setNewTransactions")' = <<>>
            /\ thunk[r].pc = "returned" => trace'[r] = trace[r]]_vars
    /\ \A r \in Runs :
          Accepted(r) ~> (Len(DispatchesOf(r, "setNewTransactions")) = 1)

\* one run has published once after three responses, another was turned away
C13_Witness ==
    \E r, q \in Runs :
        /\ Returned(r) /\ Len(DispatchesOf(r, "setNewTransactions")) = 1
        /\ Len(handled[r]) = 3
        /\ Rejected(q) /\ DispatchesOf(q, "setNewTransactions") = <<>>

\* C14: whatever issues the responses carry, a run that has returned has
\* sent one individual call for each id of the worklist not synced by the
\* batch call, in order, and ended with the publish and the final reset;
\* and every accepted run whose calls all return does return.
C14_FailuresNeverAbort ==
    /\ [](\A r \in Runs : Returned(r) =>
            /\ Len(SendsOf(r, "accounts-bank-sync")) = Len(SequentialIds(r))
            /\ \A k \in 1..Len(SequentialIds(r)) :
                  SendsOf(r, "accounts-bank-sync")[k].ids = << SequentialIds(r)[k] >>
            /\ EndsWithPublishAndReset(r))
    /\ \A r \in Runs : Accepted(r) ~> Returned(r)

\* a returned sync-all run, two individual calls, every response with
\* errors, a SyncError first in one and a generic issue first in another
C14_Witness ==
    \E r \in Runs :
        /\ Returned(r) /\ thunk[r].id = NoId
        /\ Len(SendsOf(r, "accounts-bank-sync")) = 2
        /\ \A i \in 1..Len(handled[r]) : handled[r][i].res.errors # <<>>
        /\ \E i \in 1..Len(handled[r]) : FirstIsSyncError(handled[r][i].res.errors)
        /\ \E i \in 1..Len(handled[r]) : FirstIsGeneric(handled[r][i].res.errors)

-----------------------------------------------------------------------------
(* The ids of the batch call *)

\* C15: a sync-all run sends simplefin-batch-sync at most once, only with a
\* simpleFin account in its worklist, and with no id outside its worklist.
C15_BatchCallWithinWorklist ==
    \A r \in Runs :
        (Accepted(r) /\ thunk[r].id = NoId) =>
            /\ Len(SendsOf(r, "simplefin-batch-sync")) <= 1
            /\ \A k \in 1..Len(SendsOf(r, "simplefin-batch-sync")) :
                  /\ \E a \in Range(accounts) :
                        a.id \in Range(Worklist(r)) /\ IsSimpleFin(a)
                  /\ Range(SendsOf(r, "simplefin-batch-sync")[k].ids)
                        \subseteq Range(Worklist(r))

-----------------------------------------------------------------------------
(* A provider call that rejects *)

\* C17: a run that ended because an awaited send rejected has left
\* accountsSyncing empty.
C17_ResetAfterRejectedSend ==
    \A r \in Runs : thunk[r].pc = "rejected" => accountsSyncing = <<>>

-----------------------------------------------------------------------------
(* The empty progress publications of a run and its publish *)

IsEmptyProgress(e) == e = Dispatch([type |-> "setAccountsSyncing", ids |-> <<>>])

\* C16 as claimed: in an accepted run with a non-empty worklist no
\* setAccountsSyncing([]) is dispatched before the run's setNewTransactions.
C16_NoEmptyProgressBeforePublish ==
    \A r \in Runs :
        (Accepted(r) /\ Worklist(r) # <<>>) =>
            \A i \in 1..Len(trace[r]) :
                IsEmptyProgress(trace[r][i]) =>
                    \E j \in 1..(i - 1) : IsDispatch(trace[r][j], "setNewTransactions")

\* C16 amended: in an accepted run with a non-empty worklist every
\* setAccountsSyncing([]) of the run is dispatched in its last synchronous
\* stretch, with no send of the run after it or unanswered, and next to the
\* run's setNewTransactions: directly before it (the last iteration of the
\* loop) or directly after it (the final reset).
C16_EmptyProgressOnlyAroundPublish ==
    \A r \in Runs :
        (Accepted(r) /\ Worklist(r) # <<>>) =>
            \A i \in 1..Len(trace[r]) :
                IsEmptyProgress(trace[r][i]) =>
                    /\ Returned(r)
                    /\ \A j \in (i + 1)..Len(trace[r]) : trace[r][j].ev # "send"
                    /\ \/ /\ i < Len(trace[r])
                          /\ IsDispatch(trace[r][i + 1], "setNewTransactions")
                       \/ /\ i > 1
                          /\ IsDispatch(trace[r][i - 1], "setNewTransactions")

\* a returned run with a sequential phase: empty progress, publish, reset
C16_Witness ==
    \E r \in Runs :
        /\ Returned(r) /\ Len(SequentialIds(r)) >= 2
        /\ LET n == Len(trace[r])
           IN /\ IsEmptyProgress(trace[r][n - 2])
              /\ IsDispatch(trace[r][n - 1], "setNewTransactions")
              /\ IsEmptyProgress(trace[r][n])

-----------------------------------------------------------------------------
(* unlinkAccount, linkAccount, linkAccountSimpleFin, moveAccount: the send *)
(* each one awaits and the actions it dispatches after it                  *)

unlinkAccount(id) ==
    [send |-> Send("account-unlink", <<id>>),
     dispatched |-> << [type |-> "markAccountSuccess", id |-> id],
                       [type |-> "getAccounts"] >>]

linkAccount(id) ==
    [send |-> Send("gocardless-accounts-link", <<id>>),
     dispatched |-> << [type |-> "getPayees"], [type |-> "getAccounts"] >>]

linkAccountSimpleFin(id) ==
    [send |-> Send("simplefin-accounts-link", <<id>>),
     dispatched |-> << [type |-> "getPayees"], [type |-> "getAccounts"] >>]

\* Faulty variant of moveAccount: it clears the failure of the moved account.
moveAccountClearsFailure(id) ==
    [send |-> Send("account-move", <<id>>),
     dispatched |-> << [type |-> "markAccountSuccess", id |-> id],
                       [type |-> "getAccounts"], [type |-> "getPayees"] >>]

moveAccount(id) ==
    [send |-> Send("account-move", <<id>>),
     dispatched |-> << [type |-> "getAccounts"], [type |-> "getPayees"] >>]

OpNames == {"unlinkAccount", "linkAccount", "linkAccountSimpleFin", "moveAccount"}

OpThunk(name, id) ==
    CASE name = "unlinkAccount" -> unlinkAccount(id)
      [] name = "linkAccount" -> linkAccount(id)
      [] name = "linkAccountSimpleFin" -> linkAccountSimpleFin(id)
      [] name = "moveAccount" -> moveAccount(id)

\* dispatch(<name>({ id, ... })): up to the await of its send
OpInvoke(name, id) ==
    /\ Len(ops) < MaxOps
    /\ ops' = Append(ops, [name |-> name, id |-> id, pc |-> "awaiting",
                           out |-> << OpThunk(name, id).send >>])
    /\ UNCHANGED <<accounts, accountsSyncing, failedAccounts, thunk, trace, handled>>

\* the awaited send of the k-th of these invocations resolves: its
\* dispatches, reduced by the store in order
OpResolves(k) ==
    /\ k \in 1..Len(ops)
    /\ ops[k].pc = "awaiting"
    /\ \E actions \in {OpThunk(ops[k].name, ops[k].id).dispatched} :
       \E store \in {ReduceAll(Store, actions)} :
          /\ ops' = [ops EXCEPT ![k].pc = "done", ![k].out = @ \o Dispatches(actions)]
          /\ accountsSyncing' = store.accountsSyncing
          /\ failedAccounts' = store.failedAccounts
    /\ UNCHANGED <<accounts, thunk, trace, handled>>

-----------------------------------------------------------------------------
(* SpecOps: one invocation of syncAccounts, on a store that may hold older *)
(* failures, together with invocations of the other thunks of the module   *)

OpsSnapshots ==
    { << Account(1, TRUE, 0, 0, 1, 1, "goCardless"),
         Account(2, TRUE, 0, 0, 0, 2, "simpleFin"),
         Account(3, TRUE, 0, 0, 0, 1, "goCardless") >> }

\* the accounts the other thunks are invoked for
OpsAccounts == {1, 2}

InitOps ==
    /\ accounts \in OpsSnapshots
    /\ accountsSyncing = <<>>
    /\ failedAccounts \in PriorFailures
    /\ InitThunks

NextOps ==
    \/ \E id \in Targets : Invoke(1, id)
    \/ AccountsGetResolves(1, accounts)
    \/ \E results \in BatchResults(thunk[1].simpleFinAccounts, LiveResponses) :
            BatchSyncResolves(1, results)
    \/ \E res \in LiveResponses : BankSyncResolves(1, res)
    \/ \E name \in OpNames, id \in OpsAccounts : OpInvoke(name, id)
    \/ \E k \in 1..MaxOps : OpResolves(k)

SpecOps == InitOps /\ [][NextOps]_vars

-----------------------------------------------------------------------------
(* Properties of SpecOps: what decides an entry of failedAccounts, and who *)
(* writes it                                                               *)

\* the responses given to handleSyncResponse for account a, in order
ResponsesFor(r, a) == SelectSeq(handled[r], LAMBDA p : p.accountId = a)
LastResponseFor(r, a) == ResponsesFor(r, a)[Len(ResponsesFor(r, a))].res

Unlinked(a) ==
    \E k \in 1..Len(ops) :
        ops[k].name = "unlinkAccount" /\ ops[k].id = a /\ ops[k].pc = "done"

\* a step in which the awaited send of an unlinkAccount({ id: a }) resolves
UnlinkStep(a) ==
    \E k \in 1..Len(ops) :
        /\ ops[k].name = "unlinkAccount" /\ ops[k].id = a
        /\ ops[k].pc = "awaiting" /\ ops'[k].pc = "done"

\* C18 as claimed: two accounts whose last responses are equal, neither of
\* them unlinked since, agree on having an entry in failedAccounts and on
\* its type and code.
C18_EntryFunctionOfLastResponse ==
    \A r \in Runs : \A a, b \in AccountIds :
        ( /\ ResponsesFor(r, a) # <<>> /\ ResponsesFor(r, b) # <<>>
          /\ LastResponseFor(r, a) = LastResponseFor(r, b)
          /\ ~Unlinked(a) /\ ~Unlinked(b) )
        => /\ a \in DOMAIN failedAccounts <=> b \in DOMAIN failedAccounts
           /\ a \in DOMAIN failedAccounts => failedAccounts[a] = failedAccounts[b]

\* the entry map after one response for an account, from the map before it
AfterResponse(failed, p) ==
    IF p.res.errors = <<>>
    THEN [k \in DOMAIN failed \ {p.accountId} |-> failed[k]]
    ELSE IF FirstIsSyncError(p.res.errors)
         THEN [k \in DOMAIN failed \cup {p.accountId} |->
                 IF k = p.accountId
                 THEN [type |-> p.res.errors[1].category, code |-> p.res.errors[1].code]
                 ELSE failed[k]]
         ELSE failed

RECURSIVE AfterResponses(_, _)
AfterResponses(failed, ps) ==
    IF ps = <<>> THEN failed
    ELSE AfterResponses(AfterResponse(failed, Head(ps)), Tail(ps))

\* the responses classified in a step of invocation r
NewlyHandled(r) == SubSeq(handled'[r], Len(handled[r]) + 1, Len(handled'[r]))

\* C18 amended: a response for an account decides its entry alone when it
\* has no error (no entry) or a SyncError first (that category and code);
\* with another error first the entry is what it was before the response.
\* No other account's entry changes by it, and between responses an entry
\* changes only by being deleted when unlinkAccount of its account resolves.
C18_EntryFollowsResponseOrStays ==
    [][ /\ \A r \in Runs :
            handled'[r] # handled[r] =>
                failedAccounts' = AfterResponses(failedAccounts, NewlyHandled(r))
        /\ handled' = handled =>
             \A a \in DOMAIN failedAccounts \cup DOMAIN failedAccounts' :
                \/ /\ a \in DOMAIN failedAccounts /\ a \in DOMAIN failedAccounts'
                   /\ failedAccounts'[a] = failedAccounts[a]
                \/ /\ a \notin DOMAIN failedAccounts'
                   /\ UnlinkStep(a)
      ]_vars

\* accounts 1 and 3 both had [GenericIssue, SyncError] as their last
\* response: account 1 keeps its older entry, account 3 has none
C18_Witness ==
    /\ ResponsesFor(1, 1) # <<>> /\ ResponsesFor(1, 3) # <<>>
    /\ FirstIsGeneric(LastResponseFor(1, 1).errors)
    /\ LastResponseFor(1, 3) = LastResponseFor(1, 1)
    /\ ~Unlinked(1)
    /\ 1 \in DOMAIN failedAccounts /\ failedAccounts[1] = [type |-> "P", code |-> "Q"]
    /\ 3 \notin DOMAIN failedAccounts

\* a step that classifies a response
ClassifierStep == \E r \in Runs : handled'[r] # handled[r]

\* C19 as claimed: failedAccounts changes only in a step that classifies a
\* response.
C19_OnlyClassifierWrites ==
    [][failedAccounts' # failedAccounts => ClassifierStep]_vars

\* C19 amended: an entry is created or updated only in a step that
\* classifies a response; an entry is deleted only in such a step or when
\* unlinkAccount of its account resolves; linkAccount, linkAccountSimpleFin,
\* moveAccount and the steps of syncAccounts that classify nothing leave
\* failedAccounts as it is.
C19_ClassifierAndUnlinkWrite ==
    [][ \A a \in DOMAIN failedAccounts \cup DOMAIN failedAccounts' :
          /\ ( a \in DOMAIN failedAccounts'
               /\ (a \in DOMAIN failedAccounts => failedAccounts'[a] # failedAccounts[a]) )
             => ClassifierStep
          /\ ( a \in DOMAIN failedAccounts /\ a \notin DOMAIN failedAccounts' )
             => (ClassifierStep \/ UnlinkStep(a))
      ]_vars

\* account 1 got a SyncError and its entry is gone: unlinkAccount of
\* account 1 has resolved after that response and deleted it
C19_Witness ==
    /\ ResponsesFor(1, 1) # <<>>
    /\ FirstIsSyncError(LastResponseFor(1, 1).errors)
    /\ Unlinked(1)
    /\ 1 \notin DOMAIN failedAccounts

-----------------------------------------------------------------------------
(* The progress publications of one run, counted and placed *)

\* how many of the first i entries of the trace are setAccountsSyncing
ProgressUpTo(r, i) ==
    Cardinality({ j \in 1..i : IsDispatch(trace[r][j], "setAccountsSyncing") })

\* the run is over: it returned, or an awaited send rejected
Ended(r) == thunk[r].pc \in {"returned", "rejected"}

\* C20: the first entry of an accepted run's trace publishes its worklist;
\* the k-th publication after it comes right after the classification of the
\* k-th individual response and is the sequential ids after the k-th; the
\* last entry of a run that is over publishes the empty list, after the
\* publish. A run that has got k individual responses has made 1 + k
\* publications, and M + 2 once it is over, M being the number of its
\* sequential ids; accountsSyncing is the last list published.
C20_ProgressProtocol ==
    \A r \in {1} : Accepted(r) =>
        LET M == Len(SequentialIds(r))
            done == Len(SequentialHandled(r))
            p == Progress(r)
        IN /\ IsDispatch(trace[r][1], "setAccountsSyncing")
           /\ p[1] = Worklist(r)
           /\ Len(p) = IF Ended(r) THEN M + 2 ELSE 1 + done
           /\ Ended(r) => p[Len(p)] = <<>>
           /\ \A k \in 1..done : p[k + 1] = SubSeq(SequentialIds(r), k + 1, M)
           /\ \A i \in 2..Len(trace[r]) :
                 IsDispatch(trace[r][i], "setAccountsSyncing") =>
                    IF ProgressUpTo(r, i) <= done + 1
                    THEN /\ IndividualUpTo(r, i) = ProgressUpTo(r, i) - 1
                         /\ IsDispatch(trace[r][i - 1], "getAccounts")
                    ELSE /\ i = Len(trace[r])
                         /\ trace[r][i].action.ids = <<>>
                         /\ IsDispatch(trace[r][i - 1], "setNewTransactions")
           /\ accountsSyncing = p[Len(p)]

-----------------------------------------------------------------------------
(* Every id of the worklist is classified once *)

\* the pairs classified in the batch phase of invocation r
BatchHandled(r) ==
    SubSeq(handled[r], 1, Len(handled[r]) - Len(SequentialHandled(r)))

\* how many pairs of ps are for account a
TimesIn(ps, a) == Len(SelectSeq(ps, LAMBDA p : p.accountId = a))

\* C21: in a sync-all run no id of the worklist is given to
\* handleSyncResponse more than once, and once the run has returned every id
\* of the worklist has been given to it exactly once: from the result of the
\* batch call or from an individual call, not from both; the id is then in
\* the ids of exactly one send.
C21_ExactlyOnceProcessing ==
    \A r \in Runs :
        (Accepted(r) /\ thunk[r].id = NoId) =>
            \A a \in Range(Worklist(r)) :
                /\ TimesIn(handled[r], a) <= 1
                /\ Returned(r) =>
                     /\ TimesIn(BatchHandled(r), a) + TimesIn(SequentialHandled(r), a) = 1
                     /\ TimesIn(BatchHandled(r), a) = 1 <=> a \in Range(BatchIds(r))
                     /\ TimesIn(SequentialHandled(r), a) = 1
                            <=> << a >> \in { SendsOf(r, "accounts-bank-sync")[k].ids :
                                                k \in 1..Len(SendsOf(r, "accounts-bank-sync")) }
                     /\ Cardinality({ i \in 1..Len(trace[r]) :
                            trace[r][i].ev = "send" /\ a \in Range(trace[r][i].ids) }) = 1

\* a returned sync-all run of three ids: one classified from the batch
\* result, two from individual calls
C21_Witness ==
    \E r \in Runs :
        /\ Returned(r) /\ thunk[r].id = NoId
        /\ Len(Worklist(r)) = 3
        /\ Len(BatchHandled(r)) = 1 /\ Len(SequentialHandled(r)) = 2
        /\ \A a \in Range(Worklist(r)) : TimesIn(handled[r], a) = 1

-----------------------------------------------------------------------------
(* SpecFrame: handleSyncResponse called on a store whose accountsSyncing   *)
(* may hold the ids of a run in progress and whose failedAccounts may hold *)
(* older failures                                                          *)

FrameProgress == { <<>>, <<2, 1>> }

InitFrame ==
    /\ accounts = <<>>
    /\ accountsSyncing \in FrameProgress
    /\ failedAccounts \in PriorFailures
    /\ InitThunks

NextFrame ==
    \E a \in ClassifyAccounts, res \in ClassifyResponses : Classify(1, a, res)

SpecFrame == InitFrame /\ [][NextFrame]_vars

\* the entries added to the trace of invocation r in a step
NewlyTraced(r) == SubSeq(trace'[r], Len(trace[r]) + 1, Len(trace'[r]))

\* C22: a call of handleSyncResponse for account a dispatches no
\* setAccountsSyncing and no markAccountFailed or markAccountSuccess for
\* another account; accountsSyncing is after it what it was before, and so
\* is, for every account other than a, having an entry in failedAccounts
\* and the entry itself.
C22_ClassifierFrame ==
    [][\A r \in Runs :
         handled'[r] # handled[r] =>
            LET a == handled'[r][Len(handled'[r])].accountId
            IN /\ Len(handled'[r]) = Len(handled[r]) + 1
               /\ \A i \in 1..Len(NewlyTraced(r)) :
                     /\ ~IsDispatch(NewlyTraced(r)[i], "setAccountsSyncing")
                     /\ (IsDispatch(NewlyTraced(r)[i], "markAccountFailed")
                         \/ IsDispatch(NewlyTraced(r)[i], "markAccountSuccess"))
                        => NewlyTraced(r)[i].action.id = a
               /\ accountsSyncing' = accountsSyncing
               /\ DOMAIN failedAccounts' \ {a} = DOMAIN failedAccounts \ {a}
               /\ \A b \in DOMAIN failedAccounts \ {a} :
                     failedAccounts'[b] = failedAccounts[b]
      ]_vars

\* a SyncError for account 1 has set its entry while the ids of a run were
\* published and account 2, never classified, kept its older entry
C22_Witness ==
    /\ accountsSyncing = <<2, 1>>
    /\ handled[1] # <<>>
    /\ \A i \in 1..Len(handled[1]) : handled[1][i].accountId = 1
    /\ DOMAIN failedAccounts = {1, 2}
    /\ failedAccounts[1] = [type |-> "X", code |-> "Y"]
    /\ failedAccounts[2] = [type |-> "P", code |-> "Q"]

====
